---------------------------- MODULE Spec2Model ----------------------------
(***************************************************************************)
(* Model of s3repo/model.py (class S3AsyncModel): path formatting, package *)
(* upload with cross-series deduplication, the dirty set "unsync_repos"    *)
(* guarded by "sync_lock", the permanent and transient sync workers, the   *)
(* invocation of the mkrepo tool and the discovery of repositories.        *)
(*                                                                         *)
(* A Python str is modelled as a sequence of one-character strings, so     *)
(* that the regular expressions, slicing and joining of the source are     *)
(* computed character by character.                                        *)
(***************************************************************************)
EXTENDS Integers, Sequences, FiniteSets, TLC

(***************************************************************************)
(* Bounds of the model.                                                    *)
(***************************************************************************)
\* Longest stem put in front of an extension when filenames are enumerated.
MaxStemLen == 2

(***************************************************************************)
(* Strings.                                                                *)
(***************************************************************************)
NL == "\n"
SLASH == <<"/">>

\* '/'.join(parts)
Join(parts) ==
    LET joined[n \in 0..Len(parts)] ==
            IF n = 0 THEN <<>>
            ELSE IF n = 1 THEN parts[1]
            ELSE joined[n - 1] \o SLASH \o parts[n]
    IN  joined[Len(parts)]

\* The literal texts the two regular expressions of _format_paths end with.
RpmBinarySuffixes ==
    { <<".","x","8","6","_","6","4",".","r","p","m">>,
      <<".","n","o","a","r","c","h",".","r","p","m">> }
RpmSourceSuffixes == { <<".","s","r","c",".","r","p","m">> }
DebSuffixes ==
    { <<".","d","e","b">>, <<".","d","s","c">>,
      <<".","t","a","r",".","x","z">>, <<".","t","a","r",".","g","z">> }

\* re.fullmatch(r'.*<one of suffixes>', s): the text ends with one of the
\* suffixes, and what precedes it is matched by '.*', which (no DOTALL flag)
\* matches any character except a newline.
FullMatchAnyThen(suffixes, s) ==
    \E suf \in suffixes :
        /\ Len(s) >= Len(suf)
        /\ SubSeq(s, Len(s) - Len(suf) + 1, Len(s)) = suf
        /\ \A i \in 1..(Len(s) - Len(suf)) : s[i] # NL

\* filename[:1]
FirstChars(s) == IF Len(s) = 0 THEN <<>> ELSE <<s[1]>>

\* A slip: filename.rpartition('_')[0], the text before the last '_'.
PartitionHeadLast(s) ==
    IF \E i \in 1..Len(s) : s[i] = "_"
    THEN LET k == CHOOSE i \in 1..Len(s) :
                      /\ s[i] = "_"
                      /\ \A j \in (i + 1)..Len(s) : s[j] # "_"
         IN  SubSeq(s, 1, k - 1)
    ELSE s

\* filename.partition('_')[0]: the text before the first '_', or the whole
\* text when it holds no '_'.
PartitionHead(s) ==
    IF \E i \in 1..Len(s) : s[i] = "_"
    THEN LET k == CHOOSE i \in 1..Len(s) :
                      /\ s[i] = "_"
                      /\ \A j \in 1..(i - 1) : s[j] # "_"
         IN  SubSeq(s, 1, k - 1)
    ELSE s

(***************************************************************************)
(* S3AsyncModel._format_paths.  The result is either (repo_path, path) or  *)
(* the exception raised; the S3ModelRequestError message is formatted from *)
(* the filename and dist_base, the RuntimeError message from dist_base.    *)
(***************************************************************************)
RPM == <<"r","p","m">>
DEB == <<"d","e","b">>

Paths(repo_path, path) ==
    [kind |-> "ok", repo_path |-> repo_path, path |-> path]
RequestError(filename, dist_base) ==
    [kind |-> "S3ModelRequestError", filename |-> filename,
     dist_base |-> dist_base]
\* A slip: an unknown base reported as a request error.
UnknownBaseAsRequestError(dist_base) ==
    [kind |-> "S3ModelRequestError", filename |-> <<>>,
     dist_base |-> dist_base]
UnknownBaseError(dist_base) ==
    [kind |-> "RuntimeError", dist_base |-> dist_base]

RpmBinaryRepoPath(dist_path, dist_version) ==
    Join(<<dist_path, dist_version, <<"x","8","6","_","6","4">> >>)
\* A slip: source packages filed under the binary directory.
RpmSourceRepoPathAsBinary(dist_path, dist_version) ==
    Join(<<dist_path, dist_version, <<"x","8","6","_","6","4">> >>)
RpmSourceRepoPath(dist_path, dist_version) ==
    Join(<<dist_path, dist_version, <<"S","R","P","M","S">> >>)
RpmObjectPath(repo_path, filename) ==
    Join(<<repo_path, <<"P","a","c","k","a","g","e","s">>, filename>>)
DebObjectPath(repo_path, dist_version, filename) ==
    Join(<<repo_path, <<"p","o","o","l">>, dist_version, <<"m","a","i","n">>,
           FirstChars(filename), PartitionHead(filename), filename>>)

FormatPaths(dist_path, dist_version, dist_base, filename) ==
    IF dist_base = RPM THEN
        IF FullMatchAnyThen(RpmBinarySuffixes, filename) THEN
            LET repo_path == RpmBinaryRepoPath(dist_path, dist_version)
            IN  Paths(repo_path, RpmObjectPath(repo_path, filename))
        ELSE IF FullMatchAnyThen(RpmSourceSuffixes, filename) THEN
            LET repo_path == RpmSourceRepoPath(dist_path, dist_version)
            IN  Paths(repo_path, RpmObjectPath(repo_path, filename))
        ELSE RequestError(filename, dist_base)
    ELSE IF dist_base = DEB THEN
        IF FullMatchAnyThen(DebSuffixes, filename) THEN
            LET repo_path == dist_path
            IN  Paths(repo_path,
                      DebObjectPath(repo_path, dist_version, filename))
        ELSE RequestError(filename, dist_base)
    ELSE UnknownBaseError(dist_base)


(***************************************************************************)
(* Configuration: s3_settings.  base_path is unset; supported_repos names  *)
(* one repo_kind, two tarantool series (both enabled), a deb-based         *)
(* distribution with one version and an rpm-based one with two.            *)
(***************************************************************************)
Base_path == <<>>
RepoKinds == << <<"l">> >>
TarantoolSeries == << <<"1">>, <<"2">> >>
EnabledSeries == << <<"1">>, <<"2">> >>
ENABLED_ALIAS == <<"e","n","a","b","l","e","d">>
DistNames == << <<"u">>, <<"f">> >>
Distrs(dist) ==
    IF dist = <<"u">> THEN [base |-> DEB, versions |-> << <<"d">> >>]
    ELSE [base |-> RPM, versions |-> << <<"3">>, <<"4">> >>]

\* Filenames a client may send.
DebFile == <<"t","_","1",".","d","e","b">>
SrcRpmFile == <<"t",".","s","r","c",".","r","p","m">>
NoarchRpmFile == <<"t",".","n","o","a","r","c","h",".","r","p","m">>
X86RpmFile == <<"t",".","x","8","6","_","6","4",".","r","p","m">>

Package(tarantool_series, dist, files) ==
    [repo_kind |-> RepoKinds[1], tarantool_series |-> tarantool_series,
     dist |-> dist, dist_version |-> Distrs(dist).versions[1],
     files |-> files]

\* The packages a client may put.  package.files is a dict: its keys are
\* distinct and keep their order.
Packages ==
    { \* one file for both enabled series of the deb distribution
      Package(ENABLED_ALIAS, DistNames[1], <<DebFile>>),
      \* two files of one repository, for both enabled series
      Package(ENABLED_ALIAS, DistNames[2], <<NoarchRpmFile, X86RpmFile>>),
      \* two files of two repositories, for one series
      Package(TarantoolSeries[1], DistNames[2],
              <<NoarchRpmFile, SrcRpmFile>>),
      \* a second file that does not fit the distribution
      Package(TarantoolSeries[1], DistNames[2], <<SrcRpmFile, DebFile>>),
      \* a first file that does not fit the distribution
      Package(TarantoolSeries[2], DistNames[1], <<NoarchRpmFile>>) }

(***************************************************************************)
(* Threads.  Worker 0 is the permanent sync thread started by __init__;    *)
(* workers 1..NumTransient are the pool threads sync_all_repos starts      *)
(* (threads_num in the source).                                            *)
(***************************************************************************)
NumTransient == 2
\* How many times the mkrepo tool may exit non-zero in one behaviour.
MaxFail == 2
\* How many put_package and sync_all_repos calls one behaviour holds.
MaxPuts == 1
MaxSyncAll == 2

PERMANENT == 0
Workers == 0..NumTransient
Transient == 1..NumTransient
SyncThread(w) == <<"sync", w>>
PutThread == <<"put_package">>
SyncAllThread == <<"sync_all_repos">>
FREE == <<>>
NONE == <<>>

VARIABLES
    store,          \* keys of the objects in the bucket
    sync_lock,      \* FREE, or the thread that holds self.sync_lock
    unsync_repos,   \* self.unsync_repos
    pc,             \* where each sync worker stands
    sync_repo,      \* the path each worker popped (NONE: none)
    put,            \* the put_package call in progress, its locals
    sa,             \* the sync_all_repos call in progress, its locals
    fails,          \* non-zero exits of the tool so far
    puts,           \* put_package calls so far
    syncalls,       \* sync_all_repos calls so far
    pending,        \* history: paths marked dirty, no zero exit since
    fp,             \* the _format_paths call of the path-formatting spec
    mk              \* the mkrepo invocation of the tool-invocation spec

vars == <<store, sync_lock, unsync_repos, pc, sync_repo, put, sa, fails,
          puts, syncalls, pending, fp, mk>>

PutIdle ==
    [pc |-> "idle", package |-> NONE, series |-> <<>>, si |-> 0, fi |-> 0,
     origin_files |-> <<>>, unsync_repos_local |-> {}, ops |-> <<>>,
     merged |-> {}, error |-> NONE]
\* present is history: the discovered paths that were in the dirty set
\* already when the call added them.
SyncAllIdle ==
    [pc |-> "idle", i |-> 0, repos_to_update |-> {}, present |-> {}]

\* S3AsyncModel.__init__: an empty set, a free lock, the permanent thread
\* started on sync(True).
Init ==
    /\ store = {}
    /\ sync_lock = FREE
    /\ unsync_repos = {}
    /\ pc = [w \in Workers |-> IF w = PERMANENT THEN "test" ELSE "off"]
    /\ sync_repo = [w \in Workers |-> NONE]
    /\ put = PutIdle
    /\ sa = SyncAllIdle
    /\ fails = 0
    /\ puts = 0
    /\ syncalls = 0
    /\ pending = {}
    /\ fp = [state |-> "unused"]
    /\ mk = [state |-> "unused"]

(***************************************************************************)
(* The operations of the built-in set that self.unsync_repos is.           *)
(***************************************************************************)
\* A slip: the set is replaced by the element added.
SetAddReplacing(repos, repo) == {repo}
\* self.unsync_repos.add(repo)
SetAdd(repos, repo) == repos \cup {repo}

\* A slip: only one of the paths of the local set is merged.
SetUpdateOne(repos, other) ==
    IF other = {} THEN repos ELSE repos \cup {CHOOSE repo \in other : TRUE}
\* self.unsync_repos.update(unsync_repos_local)
SetUpdate(repos, other) == repos \cup other

\* A slip: pop passes over the paths some worker has in hand.
PopChoicesNotInHand(repos, in_hand) == repos \ in_hand
\* The elements self.unsync_repos.pop() may return: any element of the set,
\* whatever the workers have in hand.
PopChoices(repos, in_hand) == repos

(***************************************************************************)
(* S3AsyncModel.sync(permanent), one action per step of the loop.          *)
(***************************************************************************)
\* "if self.unsync_repos:" / "elif permanent:" / "else: break".  The set is
\* read here without sync_lock.
TestOutcome(w, nonempty) ==
    IF nonempty THEN "acquire"
    ELSE IF w = PERMANENT THEN "sleep"
    ELSE "stopped"

SyncTest(w) ==
    /\ pc[w] = "test"
    /\ pc' = [pc EXCEPT ![w] = TestOutcome(w, unsync_repos # {})]
    /\ UNCHANGED <<store, sync_lock, unsync_repos, sync_repo, put, sa, fails,
                   puts, syncalls, pending, fp, mk>>

\* self.sync_lock.acquire()
SyncAcquire(w) ==
    /\ pc[w] = "acquire"
    /\ sync_lock = FREE
    /\ sync_lock' = SyncThread(w)
    /\ pc' = [pc EXCEPT ![w] = "pop"]
    /\ UNCHANGED <<store, unsync_repos, sync_repo, put, sa, fails, puts,
                   syncalls, pending, fp, mk>>

\* What sync does once "sync_repo = self.unsync_repos.pop()" has returned:
\* it releases the lock and goes on to run the tool.
AfterPop(w) == [lock |-> FREE, pc |-> "mkrepo"]
\* set.pop() on an empty set raises KeyError: the exception leaves sync()
\* with no handler and no release() on the way, so the thread ends with the
\* lock still held.
AfterKeyError(w) == [lock |-> SyncThread(w), pc |-> "crashed"]

\* sync_repo = self.unsync_repos.pop(); self.sync_lock.release()
SyncPop(w) ==
    /\ pc[w] = "pop"
    /\ IF unsync_repos # {}
       THEN \E repo \in PopChoices(unsync_repos,
                                    { sync_repo[v] : v \in Workers }) :
               /\ unsync_repos' = unsync_repos \ {repo}
               /\ sync_repo' = [sync_repo EXCEPT ![w] = repo]
               /\ sync_lock' = AfterPop(w).lock
               /\ pc' = [pc EXCEPT ![w] = AfterPop(w).pc]
       ELSE /\ sync_lock' = AfterKeyError(w).lock
            /\ pc' = [pc EXCEPT ![w] = AfterKeyError(w).pc]
            /\ UNCHANGED <<unsync_repos, sync_repo>>
    /\ UNCHANGED <<store, put, sa, fails, puts, syncalls, pending, fp, mk>>

\* What follows the exit status of the tool: 0 ends the iteration, anything
\* else goes on to re-add the path.
AfterMkrepo(result) == IF result # 0 THEN "readd_acquire" ELSE "test"

\* with sp.Popen(mkrepo_cmd, env=env) as mkrepo_ps: result = mkrepo_ps.wait()
SyncMkrepo(w) ==
    /\ pc[w] = "mkrepo"
    /\ \E result \in {0, 1} :
          /\ result # 0 => fails < MaxFail
          /\ fails' = IF result # 0 THEN fails + 1 ELSE fails
          /\ pc' = [pc EXCEPT ![w] = AfterMkrepo(result)]
          /\ sync_repo' = IF AfterMkrepo(result) = "test"
                          THEN [sync_repo EXCEPT ![w] = NONE]
                          ELSE sync_repo
          /\ pending' = IF result = 0 THEN pending \ {sync_repo[w]}
                        ELSE pending
    /\ UNCHANGED <<store, sync_lock, unsync_repos, put, sa, puts, syncalls, fp, mk>>

\* if result != 0: self.sync_lock.acquire()
SyncReaddAcquire(w) ==
    /\ pc[w] = "readd_acquire"
    /\ sync_lock = FREE
    /\ sync_lock' = SyncThread(w)
    /\ pc' = [pc EXCEPT ![w] = "readd"]
    /\ UNCHANGED <<store, unsync_repos, sync_repo, put, sa, fails, puts,
                   syncalls, pending, fp, mk>>

\* self.unsync_repos.add(sync_repo); self.sync_lock.release()
SyncReadd(w) ==
    /\ pc[w] = "readd"
    /\ unsync_repos' = SetAdd(unsync_repos, sync_repo[w])
    /\ sync_lock' = FREE
    /\ sync_repo' = [sync_repo EXCEPT ![w] = NONE]
    /\ pc' = [pc EXCEPT ![w] = "test"]
    /\ UNCHANGED <<store, put, sa, fails, puts, syncalls, pending, fp, mk>>

\* time.sleep(5)
SyncSleep(w) ==
    /\ pc[w] = "sleep"
    /\ pc' = [pc EXCEPT ![w] = "test"]
    /\ UNCHANGED <<store, sync_lock, unsync_repos, sync_repo, put, sa, fails,
                   puts, syncalls, pending, fp, mk>>


(***************************************************************************)
(* S3AsyncModel.put_package and _upload_files.                             *)
(***************************************************************************)
\* dist_path of _upload_files, and "path" of _get_repository_list.
DistPath(repo_kind, series, dist) ==
    IF Len(Base_path) > 0
    THEN Join(<<Base_path, repo_kind, series, dist>>)
    ELSE Join(<<repo_kind, series, dist>>)

\* tarantool_series_to_upload
SeriesToUpload(package) ==
    IF package.tarantool_series = ENABLED_ALIAS
    THEN EnabledSeries
    ELSE <<package.tarantool_series>>

\* One object-store operation of _upload_files, as logged while it runs.
Upload(filename, path) ==
    [op |-> "upload", filename |-> filename, src |-> NONE, key |-> path]
Copy(filename, origin, path) ==
    [op |-> "copy", filename |-> filename, src |-> origin, key |-> path]

\* A slip: the file is uploaded again for every series.
StoreOpAlwaysUpload(origin_files, filename, path) == Upload(filename, path)

\* "if filename in origin_files: copy ... else: upload ..."
StoreOp(origin_files, filename, path) ==
    IF filename \in DOMAIN origin_files
    THEN Copy(filename, origin_files[filename], path)
    ELSE Upload(filename, path)

\* origin_files after the operation: an upload records where the file went.
OriginAfter(origin_files, filename, path) ==
    IF filename \in DOMAIN origin_files
    THEN origin_files
    ELSE (filename :> path) @@ origin_files

\* put_package is entered: the series are resolved, origin_files is empty,
\* and _upload_files starts on the first series.
PutPackage(package) ==
    /\ put.pc \in {"idle", "returned", "raised"}
    /\ puts < MaxPuts
    /\ puts' = puts + 1
    /\ put' = [PutIdle EXCEPT !.pc = "file", !.package = package,
                              !.series = SeriesToUpload(package),
                              !.si = 1, !.fi = 1]
    /\ UNCHANGED <<store, sync_lock, unsync_repos, pc, sync_repo, sa, fails,
                   syncalls, pending, fp, mk>>

\* One iteration of "for filename, file in package.files.items()".
UploadFile ==
    /\ put.pc = "file"
    /\ LET package == put.package
           filename == package.files[put.fi]
           dist_path == DistPath(package.repo_kind, put.series[put.si],
                                 package.dist)
           res == FormatPaths(dist_path, package.dist_version,
                              Distrs(package.dist).base, filename)
       IN  IF res.kind # "ok"
           THEN /\ put' = [put EXCEPT !.pc = "raised", !.error = res]
                /\ UNCHANGED store
           ELSE /\ store' = store \cup {res.path}
                /\ put' = [put EXCEPT
                      !.ops = Append(@, StoreOp(put.origin_files, filename,
                                                res.path)),
                      !.origin_files = OriginAfter(@, filename, res.path),
                      !.unsync_repos_local = @ \cup {res.repo_path},
                      !.fi = @ + 1,
                      !.pc = IF put.fi = Len(package.files)
                             THEN "acquire" ELSE "file"]
    /\ UNCHANGED <<sync_lock, unsync_repos, pc, sync_repo, sa, fails, puts,
                   syncalls, pending, fp, mk>>

\* self.sync_lock.acquire() of _upload_files
UploadAcquire ==
    /\ put.pc = "acquire"
    /\ sync_lock = FREE
    /\ sync_lock' = PutThread
    /\ put' = [put EXCEPT !.pc = "update"]
    /\ UNCHANGED <<store, unsync_repos, pc, sync_repo, sa, fails, puts,
                   syncalls, pending, fp, mk>>

\* self.unsync_repos.update(unsync_repos_local); self.sync_lock.release();
\* then put_package goes on to the next series, or returns.
UploadUpdate ==
    /\ put.pc = "update"
    /\ unsync_repos' = SetUpdate(unsync_repos, put.unsync_repos_local)
    /\ pending' = pending \cup put.unsync_repos_local
    /\ sync_lock' = FREE
    /\ put' = IF put.si < Len(put.series)
              THEN [put EXCEPT !.pc = "file", !.si = @ + 1, !.fi = 1,
                               !.unsync_repos_local = {},
                               !.merged = @ \cup put.unsync_repos_local]
              ELSE [put EXCEPT !.pc = "returned",
                               !.unsync_repos_local = {},
                               !.merged = @ \cup put.unsync_repos_local]
    /\ UNCHANGED <<store, pc, sync_repo, sa, fails, puts, syncalls, fp, mk>>

(***************************************************************************)
(* Repository discovery: _get_deb_repo_path, _get_rpm_repo_path,           *)
(* _get_repository_list.                                                   *)
(***************************************************************************)
StartsWith(s, prefix) ==
    /\ Len(s) >= Len(prefix)
    /\ SubSeq(s, 1, Len(prefix)) = prefix

\* The positions of the '/' characters of key after its first n characters.
SlashesAfter(key, n) == { k \in (n + 1)..Len(key) : key[k] = "/" }
MinOf(S) == CHOOSE k \in S : \A j \in S : k <= j

\* list_objects_v2(Delimiter='/', Prefix=prefix).get('CommonPrefixes'): for
\* every key that starts with the prefix and holds a '/' after it, the key
\* up to and including that first '/'.  The empty set stands for None.
CommonPrefixes(bucket, prefix) ==
    { SubSeq(key, 1, MinOf(SlashesAfter(key, Len(prefix)))) :
        key \in { k \in bucket :
                    /\ StartsWith(k, prefix)
                    /\ SlashesAfter(k, Len(prefix)) # {} } }

\* _get_deb_repo_path(base_path)
GetDebRepoPath(bucket, base_path) ==
    LET path == base_path \o SLASH
    IN  IF CommonPrefixes(bucket, path) = {} THEN {} ELSE {path}

\* A slip: only the first version of the distribution is listed.
GetRpmRepoPathFirstVersion(bucket, base_path, dist_versions) ==
    CommonPrefixes(bucket, Join(<<base_path, dist_versions[1]>>) \o SLASH)

\* _get_rpm_repo_path(base_path, dist_versions)
GetRpmRepoPath(bucket, base_path, dist_versions) ==
    UNION { CommonPrefixes(bucket, Join(<<base_path, dist_versions[v]>>)
                                   \o SLASH) :
            v \in 1..Len(dist_versions) }

\* The (kind, series, dist) triples in the order of the three nested loops.
NumCombos == Len(RepoKinds) * Len(TarantoolSeries) * Len(DistNames)
Combo(i) ==
    LET n == i - 1
        d == (n % Len(DistNames)) + 1
        s == ((n \div Len(DistNames)) % Len(TarantoolSeries)) + 1
        k == (n \div (Len(DistNames) * Len(TarantoolSeries))) + 1
    IN  [kind |-> RepoKinds[k], series |-> TarantoolSeries[s],
         dist |-> DistNames[d]]

\* The request of one loop iteration of _get_repository_list.
DiscoverCombo(bucket, c) ==
    LET path == DistPath(c.kind, c.series, c.dist)
    IN  IF Distrs(c.dist).base = DEB
        THEN GetDebRepoPath(bucket, path)
        ELSE GetRpmRepoPath(bucket, path, Distrs(c.dist).versions)

(***************************************************************************)
(* S3AsyncModel.sync_all_repos.  repos_to_update is a list in the source;  *)
(* it is only iterated to add each entry to a set, so a set models it.     *)
(***************************************************************************)
SyncAllRepos ==
    /\ sa.pc \in {"idle", "returned"}
    /\ syncalls < MaxSyncAll
    /\ syncalls' = syncalls + 1
    /\ sa' = [SyncAllIdle EXCEPT !.pc = "discover", !.i = 1]
    /\ pc' = [w \in Workers |-> IF w \in Transient THEN "off" ELSE pc[w]]
    /\ UNCHANGED <<store, sync_lock, unsync_repos, sync_repo, put, fails,
                   puts, pending, fp, mk>>

\* repos_to_update = self._get_repository_list(), one listing at a time.
SyncAllDiscover ==
    /\ sa.pc = "discover"
    /\ sa' = [sa EXCEPT
              !.repos_to_update = @ \cup DiscoverCombo(store, Combo(sa.i)),
              !.i = @ + 1,
              !.pc = IF sa.i = NumCombos THEN "acquire" ELSE "discover"]
    /\ UNCHANGED <<store, sync_lock, unsync_repos, pc, sync_repo, put, fails,
                   puts, syncalls, pending, fp, mk>>

\* self.sync_lock.acquire()
SyncAllAcquire ==
    /\ sa.pc = "acquire"
    /\ sync_lock = FREE
    /\ sync_lock' = SyncAllThread
    /\ sa' = [sa EXCEPT !.pc = "add"]
    /\ UNCHANGED <<store, unsync_repos, pc, sync_repo, put, fails, puts,
                   syncalls, pending, fp, mk>>

\* for repo in repos_to_update: self.unsync_repos.add(repo); release()
SyncAllAdd ==
    /\ sa.pc = "add"
    /\ unsync_repos' = unsync_repos \cup
           UNION { SetAdd(unsync_repos, repo) : repo \in sa.repos_to_update }
    /\ pending' = pending \cup sa.repos_to_update
    /\ sync_lock' = FREE
    /\ sa' = [sa EXCEPT !.pc = "spawn",
                         !.present = sa.repos_to_update \cap unsync_repos]
    /\ UNCHANGED <<store, pc, sync_repo, put, fails, puts, syncalls, fp, mk>>

\* pool.apply_async(self.sync, (False,)) for each of the pool's threads
SyncAllSpawn ==
    /\ sa.pc = "spawn"
    /\ pc' = [w \in Workers |-> IF w \in Transient THEN "test" ELSE pc[w]]
    /\ sa' = [sa EXCEPT !.pc = "wait"]
    /\ UNCHANGED <<store, sync_lock, unsync_repos, sync_repo, put, fails,
                   puts, syncalls, pending, fp, mk>>

\* A pool task is over when sync returned or raised.
TaskOver(w) == pc[w] \in {"stopped", "crashed"}

\* for res in result_list: res.wait()
SyncAllWait ==
    /\ sa.pc = "wait"
    /\ \A w \in Transient : TaskOver(w)
    /\ sa' = [sa EXCEPT !.pc = "returned"]
    /\ UNCHANGED <<store, sync_lock, unsync_repos, pc, sync_repo, put, fails,
                   puts, syncalls, pending, fp, mk>>

(***************************************************************************)
(* The specification of the service: uploads, full resyncs and workers.    *)
(***************************************************************************)
WorkerStep(w) ==
    \/ SyncTest(w)
    \/ SyncAcquire(w)
    \/ SyncPop(w)
    \/ SyncMkrepo(w)
    \/ SyncReaddAcquire(w)
    \/ SyncReadd(w)
    \/ SyncSleep(w)

PutStep == UploadFile \/ UploadAcquire \/ UploadUpdate
SyncAllStep ==
    SyncAllDiscover \/ SyncAllAcquire \/ SyncAllAdd \/ SyncAllSpawn
        \/ SyncAllWait

Next ==
    \/ \E package \in Packages : PutPackage(package)
    \/ PutStep
    \/ SyncAllRepos
    \/ SyncAllStep
    \/ \E w \in Workers : WorkerStep(w)

Spec == Init /\ [][Next]_vars


\* The scheduling of the code: a thread that can take a step, and stays
\* able to, takes it.  Nothing makes a client start a call.
FairSpec ==
    /\ Spec
    /\ \A w \in Workers : WF_vars(WorkerStep(w))
    /\ WF_vars(PutStep)
    /\ WF_vars(SyncAllStep)

(***************************************************************************)
(* Properties of the dirty set and the workers.                            *)
(***************************************************************************)
\* sync_lock is held by a thread that has ended.
LockLeaked ==
    \E w \in Workers : sync_lock = SyncThread(w) /\ pc[w] = "crashed"

\* Worker w has popped path p and not yet finished with it.
InFlight(w, p) ==
    sync_repo[w] = p /\ pc[w] \in {"mkrepo", "readd_acquire", "readd"}

\* C1: every path put_package or sync_all_repos adds to the dirty set is,
\* under fair scheduling and a tool that ends up exiting 0, eventually
\* resynced with a zero exit.  pending holds the paths added and not yet
\* resynced with a zero exit; a behaviour adds paths finitely often, so the
\* property is that whenever some path is pending, a state follows in which
\* none is.
C1_EventuallyResynced == (pending # {}) ~> (pending = {})

\* C2: a path marked dirty with no zero exit since is in the dirty set or in
\* flight at a worker that will re-add it if the tool fails, that is, a
\* worker that can still get sync_lock.
C2_PendingNeverLost ==
    \A p \in pending :
        \/ p \in unsync_repos
        \/ \E w \in Workers : InFlight(w, p) /\ ~LockLeaked

\* The store operations of the current put_package call on one filename.
OpsOf(filename, op) ==
    { i \in DOMAIN put.ops :
        put.ops[i].filename = filename /\ put.ops[i].op = op }

\* Each filename is uploaded once, while the first series is processed, and
\* copied once for every further series, each copy from where the upload
\* put it.
Deduplicated ==
    \A n \in DOMAIN put.package.files :
        LET filename == put.package.files[n]
        IN  /\ Cardinality(OpsOf(filename, "upload")) = 1
            /\ \A u \in OpsOf(filename, "upload") :
                   u <= Len(put.package.files)
            /\ Cardinality(OpsOf(filename, "copy")) = Len(put.series) - 1
            /\ \A c \in OpsOf(filename, "copy") :
                   \A u \in OpsOf(filename, "upload") :
                       put.ops[c].src = put.ops[u].key

\* The repo_path of every (series, file) pair of the current call.
DerivedRepoPaths ==
    { FormatPaths(DistPath(put.package.repo_kind, put.series[s],
                           put.package.dist),
                  put.package.dist_version, Distrs(put.package.dist).base,
                  put.package.files[n]).repo_path :
        s \in DOMAIN put.series, n \in DOMAIN put.package.files }

\* C3 as stated: when put_package has returned, every filename was uploaded
\* exactly once and copied exactly N-1 times from the first upload, and
\* every derived repo_path is in the dirty set.
C3_AllDirtyAfterCall ==
    put.pc = "returned" =>
        (Deduplicated /\ DerivedRepoPaths \subseteq unsync_repos)

\* C3 as amended: when put_package has returned, every filename was
\* uploaded exactly once and copied exactly N-1 times from the first upload,
\* and every derived repo_path has been merged into the dirty set during
\* the call: it is still in the set unless a worker has popped it since.
C3_DedupAndMerged ==
    put.pc = "returned" =>
        /\ Deduplicated
        /\ DerivedRepoPaths \subseteq put.merged
        /\ \A p \in DerivedRepoPaths :
              \/ p \in unsync_repos
              \/ \E w \in Workers : InFlight(w, p)
              \/ p \notin pending

\* C3's case: one file put for the two enabled series, and the call over.
C3_Witness ==
    /\ put.pc = "returned"
    /\ put.package.tarantool_series = ENABLED_ALIAS
    /\ Len(put.series) = 2
    /\ Len(put.package.files) = 1
    /\ Len(put.ops) = 2

\* C4: sync_all_repos starts its transient workers only after the merge, and
\* has not returned unless every one of them has returned from sync on
\* finding the dirty set empty.
C4_ReturnsAfterWorkersStopped ==
    /\ sa.pc \in {"discover", "acquire", "add", "spawn"} =>
           \A w \in Transient : pc[w] = "off"
    /\ sa.pc = "returned" => \A w \in Transient : pc[w] = "stopped"

\* C5: the permanent worker never returns and never stops running.
C5_PermanentKeepsRunning == pc[PERMANENT] \notin {"stopped", "crashed"}

\* C6: a transient worker never sleeps and ends only by returning on
\* finding the dirty set empty, with no popped path in hand.
C6_TransientOnlyReturns ==
    \A w \in Transient :
        /\ pc[w] \notin {"sleep", "crashed"}
        /\ pc[w] = "stopped" => sync_repo[w] = NONE

\* C7: the pop of a worker removes one element of the set and hands it to
\* the worker, or, on an empty set, yields nothing and the worker goes on
\* with the lock released; no worker ends in an error.
C7_PopIsSafe ==
    [][\A w \in Workers :
          (pc[w] = "pop" /\ pc'[w] # "pop") =>
              IF unsync_repos = {}
              THEN /\ pc'[w] # "crashed"
                   /\ sync_lock' = FREE
                   /\ unsync_repos' = {}
              ELSE \E p \in unsync_repos :
                      /\ unsync_repos' = unsync_repos \ {p}
                      /\ sync_repo'[w] = p]_vars

\* C8: every step that changes the dirty set is taken with sync_lock held,
\* and so is the emptiness test of a worker, by the worker itself.
C8_AccessUnderLock ==
    [][/\ unsync_repos' # unsync_repos => sync_lock # FREE
       /\ \A w \in Workers :
             (pc[w] = "test" /\ pc'[w] # "test")
                 => sync_lock = SyncThread(w)]_vars

\* C12: adding to the dirty set is idempotent.  Every add, by
\* _upload_files, by sync_all_repos or by a worker after a failed run of the
\* tool, leaves the set equal to its union with the paths added, so adding a
\* path already present leaves the set unchanged; and one pop takes the
\* path out of the set altogether, however often it was added while there.
C12_AddIdempotent ==
    [][/\ (put.pc = "update" /\ put'.pc # "update") =>
              /\ unsync_repos' = unsync_repos \cup put.unsync_repos_local
              /\ put.unsync_repos_local \subseteq unsync_repos
                     => unsync_repos' = unsync_repos
       /\ (sa.pc = "add" /\ sa'.pc # "add") =>
              /\ unsync_repos' = unsync_repos \cup sa.repos_to_update
              /\ sa.repos_to_update \subseteq unsync_repos
                     => unsync_repos' = unsync_repos
       /\ \A w \in Workers :
              /\ (pc[w] = "readd" /\ pc'[w] # "readd") =>
                     /\ unsync_repos' = unsync_repos \cup {sync_repo[w]}
                     /\ sync_repo[w] \in unsync_repos
                            => unsync_repos' = unsync_repos
              /\ (pc[w] = "pop" /\ pc'[w] = "mkrepo") =>
                     sync_repo'[w] \notin unsync_repos']_vars

\* C12's case: sync_all_repos has added paths that were in the set already,
\* and the set holds each of them once.
C12_Witness ==
    /\ sa.pc = "spawn"
    /\ sa.present # {}
    /\ unsync_repos = sa.repos_to_update

\* C16: two workers can process one path at the same time.  Nothing in
\* the pop excludes a path that a worker has in hand: a worker at its pop
\* can take any path of the set, also one on which another worker is still
\* running the tool.
C16_PopNotExclusive ==
    \A w \in Workers :
        pc[w] = "pop" =>
            \A p \in unsync_repos :
                ENABLED (SyncPop(w) /\ sync_repo'[w] = p)

\* C16's case: two workers are running the tool on the same path.
C16_Witness ==
    \E v, w \in Workers :
        /\ v # w
        /\ pc[v] = "mkrepo"
        /\ pc[w] = "mkrepo"
        /\ sync_repo[v] = sync_repo[w]

\* C17: sync_lock is never held forever.  Whoever holds it is inside its
\* critical section and about to release it: a worker at its pop or its
\* re-add, _upload_files at its update, sync_all_repos at its adds; it is
\* never held by a worker that has returned or failed.
C17_LockAlwaysReleased ==
    /\ \A w \in Workers :
           sync_lock = SyncThread(w) => pc[w] \in {"pop", "readd"}
    /\ sync_lock = PutThread => put.pc = "update"
    /\ sync_lock = SyncAllThread => sa.pc = "add"

\* C18: a failed upload marks what it changed.  When put_package has ended
\* in an error, every repository into which the call has uploaded or copied
\* an object is in the dirty set or in flight at a worker.
C18_FailedUploadMarksDirty ==
    put.pc = "raised" =>
        \A p \in put.unsync_repos_local \cup put.merged :
            \/ p \in unsync_repos
            \/ \E w \in Workers : InFlight(w, p)
            \/ p \in put.merged /\ p \notin pending

\* C19: one repository has one entry.  The path discovery reports for a
\* repository is the repo_path _format_paths derived for the files uploaded
\* into it, so the dirty set never holds two spellings of one path.
C19_OneEntryPerRepository ==
    /\ sa.repos_to_update \subseteq put.merged \cup put.unsync_repos_local
    /\ \A p \in unsync_repos : p \o <<"/">> \notin unsync_repos

\* The object path and the repo_path of file n of the package, for the
\* series _upload_files is working on.
CurrentPaths(n) ==
    FormatPaths(DistPath(put.package.repo_kind, put.series[put.si],
                         put.package.dist),
                put.package.dist_version, Distrs(put.package.dist).base,
                put.package.files[n])

\* C20: upload precedes dirty-marking.  The steps of _upload_files before
\* its update leave the shared dirty set alone; its update is taken when
\* every file of the package is in the store for the series at hand, and
\* puts all the repo_paths of that series into the set in that one step.
C20_UploadBeforeMark ==
    [][/\ (put.pc \in {"file", "acquire"} /\ put' # put)
              => unsync_repos' = unsync_repos
       /\ (put.pc = "update" /\ put' # put) =>
              /\ \A n \in DOMAIN put.package.files :
                     CurrentPaths(n).path \in store
              /\ unsync_repos' = unsync_repos \cup
                     { CurrentPaths(n).repo_path :
                         n \in DOMAIN put.package.files }]_vars

\* C20's case: a package of two files for two repositories of one series
\* has been uploaded and both repositories marked.
C20_Witness ==
    /\ put.pc = "returned"
    /\ Len(put.series) = 1
    /\ Len(put.ops) = 2
    /\ Cardinality(put.merged) = 2

(***************************************************************************)
(* The path-formatting specification: _format_paths is called once on      *)
(* arguments drawn from the sets below.                                    *)
(***************************************************************************)
StemChars == {"t", "_", ".", NL}
Stems == UNION { [1..k -> StemChars] : k \in 0..MaxStemLen }
Extensions ==
    RpmBinarySuffixes \cup RpmSourceSuffixes \cup DebSuffixes \cup
    { <<>>, <<".","r","p","m">>, <<".","x","z">>, <<".","g","z">>,
      <<"s","r","c",".","r","p","m">>, <<".","d","e","b","s">> }
EnumFileNames == { stem \o ext : stem \in Stems, ext \in Extensions }
EnumDistPaths == { <<"l","/","1","/","u">>, <<"r">> }
EnumDistVersions == { <<"d">>, <<"3","1">> }
EnumDistBases == { RPM, DEB, <<"a","p","k">> }

FormatCallArgs(dist_path, dist_version, dist_base, filename) ==
    [state |-> "call", dist_path |-> dist_path,
     dist_version |-> dist_version, dist_base |-> dist_base,
     filename |-> filename, result |-> NONE]

\* Two calls on the names of real packages: a binary rpm for Fedora 31 and
\* a deb for Ubuntu disco.
ExRpmDistPath ==
    <<"r", "e", "p", "o", "/", "2", ".", "8", "/", "f", "e", "d", "o",
    "r", "a">>
ExRpmVersion ==
    <<"3", "1">>
ExRpmFile ==
    <<"t", "a", "r", "a", "n", "t", "o", "o", "l", "-", "2", ".", "8",
    ".", "1", "-", "1", ".", "x", "8", "6", "_", "6", "4", ".", "r",
    "p", "m">>
ExDebDistPath ==
    <<"r", "e", "p", "o", "/", "2", ".", "8", "/", "u", "b", "u", "n",
    "t", "u">>
ExDebVersion ==
    <<"d", "i", "s", "c", "o">>
ExDebFile ==
    <<"t", "a", "r", "a", "n", "t", "o", "o", "l", "_", "2", ".", "8",
    ".", "1", "-", "1", "_", "a", "m", "d", "6", "4", ".", "d", "e",
    "b">>
ExampleCalls ==
    { FormatCallArgs(ExRpmDistPath, ExRpmVersion, RPM, ExRpmFile),
      FormatCallArgs(ExDebDistPath, ExDebVersion, DEB, ExDebFile) }

InitPaths ==
    /\ store = {}
    /\ sync_lock = FREE
    /\ unsync_repos = {}
    /\ pc = [w \in Workers |-> IF w = PERMANENT THEN "test" ELSE "off"]
    /\ sync_repo = [w \in Workers |-> NONE]
    /\ put = PutIdle
    /\ sa = SyncAllIdle
    /\ fails = 0
    /\ puts = 0
    /\ syncalls = 0
    /\ pending = {}
    /\ fp \in { FormatCallArgs(dp, dv, db, fn) :
                    dp \in EnumDistPaths, dv \in EnumDistVersions,
                    db \in EnumDistBases, fn \in EnumFileNames }
               \cup ExampleCalls
    /\ mk = [state |-> "unused"]

FormatCall ==
    /\ fp.state = "call"
    /\ fp' = [fp EXCEPT !.state = "done",
                        !.result = FormatPaths(fp.dist_path, fp.dist_version,
                                               fp.dist_base, fp.filename)]
    /\ UNCHANGED <<store, sync_lock, unsync_repos, pc, sync_repo, put, sa,
                   fails, puts, syncalls, pending, mk>>

NextPaths == FormatCall

SpecPaths == InitPaths /\ [][NextPaths]_vars


(***************************************************************************)
(* Properties of _format_paths (specification SpecPaths).                  *)
(***************************************************************************)
EndsWith(s, suffix) ==
    /\ Len(s) >= Len(suffix)
    /\ \A i \in 1..Len(suffix) : s[Len(s) - Len(suffix) + i] = suffix[i]
HasNewline(s) == \E i \in 1..Len(s) : s[i] = NL
Called(dist_base) == fp.state = "done" /\ fp.dist_base = dist_base

X86_64_RPM == <<".","x","8","6","_","6","4",".","r","p","m">>
NOARCH_RPM == <<".","n","o","a","r","c","h",".","r","p","m">>
SRC_RPM == <<".","s","r","c",".","r","p","m">>

\* dist_path/dist_version/<dir> and <repo_path>/Packages/<filename>
RpmLayout(dir) ==
    LET repo_path == fp.dist_path \o <<"/">> \o fp.dist_version \o <<"/">>
                         \o dir
    IN  /\ fp.result.kind = "ok"
        /\ fp.result.repo_path = repo_path
        /\ fp.result.path = repo_path
               \o <<"/","P","a","c","k","a","g","e","s","/">> \o fp.filename

RpmLayoutHolds ==
    /\ (EndsWith(fp.filename, X86_64_RPM) \/ EndsWith(fp.filename, NOARCH_RPM))
          => RpmLayout(<<"x","8","6","_","6","4">>)
    /\ EndsWith(fp.filename, SRC_RPM) => RpmLayout(<<"S","R","P","M","S">>)

\* C9 as stated: for layout kind rpm, every filename ending in .x86_64.rpm
\* or .noarch.rpm gets repo_path = dist_path/dist_version/x86_64, every
\* filename ending in .src.rpm gets repo_path = dist_path/dist_version/SRPMS,
\* and object_path = repo_path/Packages/filename in both cases.
C9_EveryRpmFilename == Called(RPM) => RpmLayoutHolds

\* C9 as amended: the same, for every such filename that holds no newline
\* character (the '.*' of the pattern does not match one, and the filename
\* is then refused).
C9_RpmPaths == (Called(RPM) /\ ~HasNewline(fp.filename)) => RpmLayoutHolds

\* C9's case: a binary and a source rpm with a stem have been formatted.
C9_Witness ==
    /\ Called(RPM)
    /\ fp.result.kind = "ok"
    /\ EndsWith(fp.filename, NOARCH_RPM)
    /\ Len(fp.filename) > Len(NOARCH_RPM)

DebExtensions ==
    { <<".","d","e","b">>, <<".","d","s","c">>,
      <<".","t","a","r",".","x","z">>, <<".","t","a","r",".","g","z">> }

\* The text before the first underscore of s; all of s when it has none.
IsHeadOf(head, s) ==
    IF \A i \in 1..Len(s) : s[i] # "_"
    THEN head = s
    ELSE \E k \in 1..Len(s) :
            /\ s[k] = "_"
            /\ Len(head) = k - 1
            /\ \A j \in 1..(k - 1) : head[j] = s[j] /\ s[j] # "_"

\* repo_path = dist_path and
\* object_path = repo_path/pool/dist_version/main/<first>/<head>/filename
DebLayoutHolds ==
    (\E ext \in DebExtensions : EndsWith(fp.filename, ext)) =>
        /\ fp.result.kind = "ok"
        /\ fp.result.repo_path = fp.dist_path
        /\ \E head \in { SubSeq(fp.filename, 1, n) :
                           n \in 0..Len(fp.filename) } :
              /\ IsHeadOf(head, fp.filename)
              /\ fp.result.path =
                   fp.dist_path \o <<"/","p","o","o","l","/">>
                     \o fp.dist_version \o <<"/","m","a","i","n","/">>
                     \o <<fp.filename[1]>> \o <<"/">> \o head \o <<"/">>
                     \o fp.filename

ExDebObjectPath ==
    <<"r", "e", "p", "o", "/", "2", ".", "8", "/", "u", "b", "u", "n",
    "t", "u", "/", "p", "o", "o", "l", "/", "d", "i", "s", "c", "o",
    "/", "m", "a", "i", "n", "/", "t", "/", "t", "a", "r", "a", "n",
    "t", "o", "o", "l", "/", "t", "a", "r", "a", "n", "t", "o", "o",
    "l", "_", "2", ".", "8", ".", "1", "-", "1", "_", "a", "m", "d",
    "6", "4", ".", "d", "e", "b">>
\* The documented example: tarantool_2.8.1-1_amd64.deb for repo/2.8/ubuntu,
\* disco.
DebExampleHolds ==
    (fp.dist_path = ExDebDistPath /\ fp.dist_version = ExDebVersion
        /\ fp.filename = ExDebFile)
    => (fp.result.kind = "ok" /\ fp.result.path = ExDebObjectPath)

\* C10 as stated: for layout kind deb, every filename ending in .deb, .dsc,
\* .tar.xz or .tar.gz gets repo_path = dist_path and object_path =
\* repo_path/pool/dist_version/main/<first character>/<text before the
\* first underscore>/filename.
C10_EveryDebFilename == Called(DEB) => (DebLayoutHolds /\ DebExampleHolds)

\* C10 as amended: the same, for every such filename that holds no newline
\* character; a filename without an underscore stands whole in the place of
\* the text before its first underscore.
C10_DebPaths ==
    (Called(DEB) /\ ~HasNewline(fp.filename))
        => (DebLayoutHolds /\ DebExampleHolds)

\* C10's case: a deb filename with two underscores has been formatted.
C10_Witness ==
    /\ Called(DEB)
    /\ fp.result.kind = "ok"
    /\ fp.filename = ExDebFile

RpmExtensions == { X86_64_RPM, NOARCH_RPM, SRC_RPM }
MatchesExtensionSet(filename, extensions) ==
    \E ext \in extensions : EndsWith(filename, ext)

\* C11: _format_paths never accepts a bad input.  A filename that ends in
\* none of the extensions of the layout kind (rpm or deb) it is formatted
\* for is refused with S3ModelRequestError, whose message is made of that
\* filename and that layout kind; a layout kind other than rpm and deb is
\* refused with RuntimeError, not with S3ModelRequestError, whatever the
\* filename.
C11_BadInputRefused ==
    fp.state = "done" =>
        /\ (fp.dist_base = RPM
                /\ ~MatchesExtensionSet(fp.filename, RpmExtensions))
              => /\ fp.result.kind = "S3ModelRequestError"
                 /\ fp.result.filename = fp.filename
                 /\ fp.result.dist_base = RPM
        /\ (fp.dist_base = DEB
                /\ ~MatchesExtensionSet(fp.filename, DebExtensions))
              => /\ fp.result.kind = "S3ModelRequestError"
                 /\ fp.result.filename = fp.filename
                 /\ fp.result.dist_base = DEB
        /\ fp.dist_base \notin {RPM, DEB}
              => /\ fp.result.kind = "RuntimeError"
                 /\ fp.result.dist_base = fp.dist_base

\* C11's cases: a deb file sent to an rpm distribution has been refused.
C11_Witness ==
    /\ Called(RPM)
    /\ EndsWith(fp.filename, <<".","d","e","b">>)
    /\ Len(fp.filename) > 4
    /\ fp.result = RequestError(fp.filename, RPM)

(***************************************************************************)
(* The invocation of the mkrepo tool by sync: the argument list and the    *)
(* environment handed to subprocess.Popen.                                 *)
(***************************************************************************)
MKREPO_PY ==
    <<".", "/", "t", "h", "i", "r", "d", "_", "p", "a", "r", "t",
      "y", "/", "m", "k", "r", "e", "p", "o", "/", "m", "k", "r",
      "e", "p", "o", ".", "p", "y">>
S3_ACCESS_KEY_ID_FLAG ==
    <<"-", "-", "s", "3", "-", "a", "c", "c", "e", "s", "s", "-",
      "k", "e", "y", "-", "i", "d">>
S3_SECRET_ACCESS_KEY_FLAG ==
    <<"-", "-", "s", "3", "-", "s", "e", "c", "r", "e", "t", "-",
      "a", "c", "c", "e", "s", "s", "-", "k", "e", "y">>
S3_ENDPOINT_FLAG ==
    <<"-", "-", "s", "3", "-", "e", "n", "d", "p", "o", "i", "n",
      "t">>
S3_REGION_FLAG ==
    <<"-", "-", "s", "3", "-", "r", "e", "g", "i", "o", "n">>
SIGN_FLAG ==
    <<"-", "-", "s", "i", "g", "n">>
S3_SCHEME ==
    <<"s", "3", ":", "/", "/">>

\* s3_settings, with the gpg_sign_key given (NONE: not set, or empty).
S3_settings(gpg_sign_key) ==
    [access_key_id |-> <<"A">>, secret_access_key |-> <<"S">>,
     endpoint_url |-> <<"E">>, region |-> <<"R">>, bucket_name |-> <<"b">>,
     gpg_sign_key |-> gpg_sign_key]

\* "if self.s3_settings.get('gpg_sign_key'):" holds for a non-empty key.
HasSignKey(s3_settings) == Len(s3_settings.gpg_sign_key) > 0

\* A slip: the key follows the flag on the command line.
SignArgsWithKey(s3_settings) ==
    IF HasSignKey(s3_settings)
    THEN <<SIGN_FLAG, s3_settings.gpg_sign_key>>
    ELSE <<>>
\* mkrepo_cmd.append('--sign'), if there is a key
SignArgs(s3_settings) ==
    IF HasSignKey(s3_settings) THEN <<SIGN_FLAG>> ELSE <<>>

\* 's3://{0}/{1}'.format(bucket_name, sync_repo)
RepoUri(s3_settings, repo) ==
    S3_SCHEME \o s3_settings.bucket_name \o <<"/">> \o repo

\* mkrepo_cmd
MkrepoCmd(s3_settings, repo) ==
    <<MKREPO_PY,
      S3_ACCESS_KEY_ID_FLAG, s3_settings.access_key_id,
      S3_SECRET_ACCESS_KEY_FLAG, s3_settings.secret_access_key,
      S3_ENDPOINT_FLAG, s3_settings.endpoint_url,
      S3_REGION_FLAG, s3_settings.region>>
        \o SignArgs(s3_settings)
        \o <<RepoUri(s3_settings, repo)>>

\* env: None (the child inherits the environment of the service), or a copy
\* of os.environ with GPG_SIGN_KEY set to the key.
MkrepoEnv(s3_settings, environ) ==
    IF HasSignKey(s3_settings)
    THEN [inherited |-> FALSE,
          vars |-> ("GPG_SIGN_KEY" :> s3_settings.gpg_sign_key) @@ environ]
    ELSE [inherited |-> TRUE, vars |-> environ]

\* The keys, the popped paths and the environments the invocation is built
\* for: no key or a key, a path as _format_paths or as discovery spells it.
EnumSignKeys == { NONE, <<"k">>, <<"k","2">> }
EnumRepos ==
    UNION { { DistPath(RepoKinds[1], TarantoolSeries[n], DistNames[1]),
              DistPath(RepoKinds[1], TarantoolSeries[n], DistNames[1])
                  \o SLASH,
              RpmBinaryRepoPath(DistPath(RepoKinds[1], TarantoolSeries[n],
                                         DistNames[2]), <<"3">>),
              RpmBinaryRepoPath(DistPath(RepoKinds[1], TarantoolSeries[n],
                                         DistNames[2]), <<"3">>) \o SLASH,
              RpmSourceRepoPath(DistPath(RepoKinds[1], TarantoolSeries[n],
                                         DistNames[2]), <<"3">>),
              RpmSourceRepoPath(DistPath(RepoKinds[1], TarantoolSeries[n],
                                         DistNames[2]), <<"3">>) \o SLASH }
            : n \in 1..2 }
EnumEnvirons == { <<>>, "PATH" :> <<"/">> }

InitTool ==
    /\ store = {}
    /\ sync_lock = FREE
    /\ unsync_repos = {}
    /\ pc = [w \in Workers |-> IF w = PERMANENT THEN "test" ELSE "off"]
    /\ sync_repo = [w \in Workers |-> NONE]
    /\ put = PutIdle
    /\ sa = SyncAllIdle
    /\ fails = 0
    /\ puts = 0
    /\ syncalls = 0
    /\ pending = {}
    /\ fp = [state |-> "unused"]
    /\ mk \in [state : {"call"}, s3_settings : { S3_settings(k) :
                                                  k \in EnumSignKeys },
                sync_repo : EnumRepos, environ : EnumEnvirons,
                cmd : {NONE}, env : {NONE}]

\* Lines 331 to 356 of sync: the command and the environment are built and
\* handed to Popen.
BuildInvocation ==
    /\ mk.state = "call"
    /\ mk' = [mk EXCEPT !.state = "done",
                        !.cmd = MkrepoCmd(mk.s3_settings, mk.sync_repo),
                        !.env = MkrepoEnv(mk.s3_settings, mk.environ)]
    /\ UNCHANGED <<store, sync_lock, unsync_repos, pc, sync_repo, put, sa,
                   fails, puts, syncalls, pending, fp>>

NextTool == BuildInvocation

SpecTool == InitTool /\ [][NextTool]_vars

(***************************************************************************)
(* Properties of the invocation (specification SpecTool).                  *)
(***************************************************************************)
Invoked == mk.state = "done"
KeyConfigured == mk.s3_settings.gpg_sign_key # <<>>
InArgs(arg) == \E n \in DOMAIN mk.cmd : mk.cmd[n] = arg

\* C15: the signing key stays off the command line.  For every invocation
\* a worker builds: the last argument is s3://<bucket>/<the popped path>;
\* --sign is among the arguments if and only if a signing key is
\* configured; a configured key is the value of GPG_SIGN_KEY in the
\* environment of the child and is no element of the argument list.
C15_KeyOffCommandLine ==
    Invoked =>
        /\ mk.cmd[Len(mk.cmd)] =
               <<"s","3",":","/","/">> \o mk.s3_settings.bucket_name
                   \o <<"/">> \o mk.sync_repo
        /\ InArgs(<<"-","-","s","i","g","n">>) <=> KeyConfigured
        /\ KeyConfigured =>
               /\ ~mk.env.inherited
               /\ mk.env.vars["GPG_SIGN_KEY"] = mk.s3_settings.gpg_sign_key
               /\ ~InArgs(mk.s3_settings.gpg_sign_key)

\* C15's case: an invocation has been built with a key configured.
C15_Witness ==
    /\ Invoked
    /\ KeyConfigured
    /\ InArgs(<<"-","-","s","i","g","n">>)
    /\ Len(mk.cmd) = 11

(***************************************************************************)
(* The discovery specification: _get_repository_list is run, as            *)
(* sync_all_repos runs it, on a bucket that holds any of the keys below.   *)
(***************************************************************************)
EnumKeys ==
    { \* the deb distribution of series 1: an object below a sub-prefix, and
      \* an object right under the distribution path
      <<"l","/","1","/","u","/","p","/","a">>,
      <<"l","/","1","/","u","/","a">>,
      \* the deb distribution of series 2
      <<"l","/","2","/","u","/","p","/","a">>,
      \* a distribution whose name starts like the deb one
      <<"l","/","1","/","u","u","/","p","/","a">>,
      \* the rpm distribution of series 1: two sub-prefixes of version 3, an
      \* object right under version 3, a sub-prefix of version 4 and one of
      \* a version that is not configured
      <<"l","/","1","/","f","/","3","/","x","/","a">>,
      <<"l","/","1","/","f","/","3","/","S","/","a">>,
      <<"l","/","1","/","f","/","3","/","a">>,
      <<"l","/","1","/","f","/","4","/","x","/","a">>,
      <<"l","/","1","/","f","/","5","/","x","/","a">> }

InitDiscovery ==
    /\ store \in SUBSET EnumKeys
    /\ sync_lock = FREE
    /\ unsync_repos = {}
    /\ pc = [w \in Workers |-> IF w = PERMANENT THEN "test" ELSE "off"]
    /\ sync_repo = [w \in Workers |-> NONE]
    /\ put = PutIdle
    /\ sa = SyncAllIdle
    /\ fails = 0
    /\ puts = 0
    /\ syncalls = 0
    /\ pending = {}
    /\ fp = [state |-> "unused"]
    /\ mk = [state |-> "unused"]

NextDiscovery == SyncAllRepos \/ SyncAllDiscover

SpecDiscovery == InitDiscovery /\ [][NextDiscovery]_vars

(***************************************************************************)
(* Properties of discovery (specification SpecDiscovery).                  *)
(***************************************************************************)
\* _get_repository_list has returned.
Discovered == sa.pc = "acquire"

Combos == { Combo(i) : i \in 1..NumCombos }
CombosOf(base) == { c \in Combos : Distrs(c.dist).base = base }

\* The keys of the bucket below the directory dir (dir ends with '/').
KeysUnder(dir) == { key \in store : StartsWith(key, dir) /\ key # dir }

\* The reported paths that lie at or below the path of a distribution.
ReportedAt(dist_path) ==
    { p \in sa.repos_to_update :
        p = dist_path \/ StartsWith(p, dist_path \o <<"/">>) }

\* C13: discovery for a deb-based distribution.  For every (repo_kind,
\* tarantool_series, dist) whose base is deb: if the bucket holds any object
\* under the path of the distribution, that path and nothing else is
\* reported for it (with or without its closing '/'); if it holds none,
\* nothing is reported for it.
C13_DebDiscovery ==
    Discovered =>
        \A c \in CombosOf(DEB) :
            LET dist_path == DistPath(c.kind, c.series, c.dist)
            IN  IF KeysUnder(dist_path \o <<"/">>) # {}
                THEN /\ Cardinality(ReportedAt(dist_path)) = 1
                     /\ ReportedAt(dist_path) \subseteq
                            {dist_path, dist_path \o <<"/">>}
                ELSE ReportedAt(dist_path) = {}

\* q is a sub-prefix right under dir: q is dir, one more path segment and a
\* '/', and some key of the bucket starts with q.
IsSubPrefix(q, dir) ==
    /\ StartsWith(q, dir)
    /\ Len(q) > Len(dir)
    /\ q[Len(q)] = "/"
    /\ \A n \in (Len(dir) + 1)..(Len(q) - 1) : q[n] # "/"
    /\ \E key \in store : StartsWith(key, q)

\* Every text a reported path could be: a key of the bucket cut after any of
\* its characters, or whatever has been reported.
CandidatePaths ==
    UNION { { SubSeq(key, 1, n) : n \in 1..Len(key) } : key \in store }
        \cup sa.repos_to_update

\* C14: discovery for an rpm-based distribution.  For every (repo_kind,
\* tarantool_series, dist) whose base is rpm, the paths reported for it are
\* exactly the sub-prefixes that exist right under path/version/ for a
\* configured version: each of them once, nothing for a version with no
\* sub-prefix, nothing for a version that is not configured.
C14_RpmDiscovery ==
    Discovered =>
        \A c \in CombosOf(RPM) :
            LET dist_path == DistPath(c.kind, c.series, c.dist)
                versions == Distrs(c.dist).versions
            IN  ReportedAt(dist_path) =
                    { q \in CandidatePaths :
                        \E v \in DOMAIN versions :
                            IsSubPrefix(q, dist_path \o <<"/">> \o versions[v]
                                               \o <<"/">>) }

\* C14's case: two sub-prefixes of one version and one of another have been
\* reported, with an object right under a version and a sub-prefix of a
\* version that is not configured in the bucket.
C14_Witness ==
    /\ Discovered
    /\ store = { k \in EnumKeys : StartsWith(k, <<"l","/","1","/","f","/">>) }
    /\ Cardinality(sa.repos_to_update) = 3

(***************************************************************************)
(* The full-resync specification: sync_all_repos and the workers on a      *)
(* bucket filled by earlier uploads, with no put_package call.             *)
(***************************************************************************)
\* The object _upload_files writes for a file of a distribution, series 1.
ObjectOf(dist, filename) ==
    FormatPaths(DistPath(RepoKinds[1], TarantoolSeries[1], dist),
                Distrs(dist).versions[1], Distrs(dist).base, filename).path

ResyncBuckets ==
    { {ObjectOf(DistNames[1], DebFile)},
      {ObjectOf(DistNames[2], NoarchRpmFile)},
      {ObjectOf(DistNames[2], NoarchRpmFile),
       ObjectOf(DistNames[2], SrcRpmFile)},
      {ObjectOf(DistNames[1], DebFile), ObjectOf(DistNames[2], SrcRpmFile)} }

InitResync ==
    /\ store \in ResyncBuckets
    /\ sync_lock = FREE
    /\ unsync_repos = {}
    /\ pc = [w \in Workers |-> IF w = PERMANENT THEN "test" ELSE "off"]
    /\ sync_repo = [w \in Workers |-> NONE]
    /\ put = PutIdle
    /\ sa = SyncAllIdle
    /\ fails = 0
    /\ puts = 0
    /\ syncalls = 0
    /\ pending = {}
    /\ fp = [state |-> "unused"]
    /\ mk = [state |-> "unused"]

NextResync ==
    \/ SyncAllRepos
    \/ SyncAllStep
    \/ \E w \in Workers : WorkerStep(w)

SpecResync == InitResync /\ [][NextResync]_vars

\* The scheduling of the code, as in FairSpec.
FairResync ==
    /\ SpecResync
    /\ \A w \in Workers : WF_vars(WorkerStep(w))
    /\ WF_vars(SyncAllStep)

(***************************************************************************)
(* Properties of the full resync (SpecResync, FairResync).                 *)
(***************************************************************************)
\* C21: sync_all_repos terminates.  With no upload, fair scheduling and a
\* tool that fails finitely often, a call that has started is followed by
\* a state in which every transient worker has ended and the call has
\* returned.
C21_SyncAllTerminates ==
    (sa.pc \in {"discover", "acquire", "add", "spawn", "wait"})
        ~> (sa.pc = "returned" /\ \A w \in Transient : TaskOver(w))

\* C22: the full resync is complete on return.  When sync_all_repos has
\* returned, with no put_package during the call, every path discovery
\* reported has had a zero exit of the tool since it was merged, and none
\* of them is in the dirty set or in flight at a worker, the permanent one
\* included.
C22_CompleteOnReturn ==
    sa.pc = "returned" =>
        \A p \in sa.repos_to_update :
            /\ p \notin pending
            /\ p \notin unsync_repos
            /\ \A w \in Workers : ~InFlight(w, p)

=============================================================================
